---- MODULE Spec2Model ----
(***************************************************************************)
(* State-machine model of bot.js (mee6-lite-bot): the two SQLite tables,   *)
(* the three gateway listeners (messageCreate, guildMemberAdd,             *)
(* interactionCreate) and the slash-command handlers.                      *)
(*                                                                         *)
(* Execution model: Node runs one listener at a time; a listener runs      *)
(* without interruption up to its next `await`, where it is parked in      *)
(* `tasks` until the awaited gateway call settles.  better-sqlite3 calls   *)
(* are synchronous.  Every action below is one such uninterrupted run.     *)
(* A gateway call may resolve or reject; a store call may throw.           *)
(***************************************************************************)
EXTENDS Integers, FiniteSets, Sequences, TLC

\* ------------------------------------------------------------------ bounds
\* Number of cooldown windows the clock may advance through.
MaxWindows == 3
\* Number of listeners that may be parked at an await at the same time.
MaxInflight == 2
\* Spacing of the XP draws taken from the code's range 15..25.
GainStep == 5
\* Cap on the XP one member is granted in a run (store faults let a member be
\* granted XP any number of times at one instant).
MaxXp == 110
\* Number of cooldown windows that pass while the level-up loop is followed
\* statement by statement: room for five grants.
MaxLoopWindows == 4
\* Highest level of the rows the level-up loop is started from.
MaxStoredLevel == 3

\* --------------------------------------------------------- program constants
cooldownMs == 60 * 1000
sevenDays == 7 * 24 * 60 * 60 * 1000
GainMin == 15
GainSpan == 11

\* Date.now() is far beyond one cooldown window and seven days after the
\* epoch; the modelled clock starts there so `now - 0` and `now - joined`
\* behave as they do on a real clock.
StartTime == sevenDays + cooldownMs

Null == "null"

Guilds == {"g1"}
Members == {"u1", "u2"}
\* The member whose progression is followed step by step.
Chatters == {"u1"}
Channels == {"c1", "c2"}
WelcomeTexts == {"Hi {user}"}
Roles == {"rA", "rB", "rC"}

\* Math.random() draws, 15 + floor(random * 11): a spread over 15..25.
Gains == {x \in GainMin..(GainMin + GainSpan - 1) : (x - GainMin) % GainStep = 0}

\* Instants at which Date.now() is sampled: both sides of every window edge.
Times == {StartTime + k * cooldownMs + e : k \in 0..MaxWindows, e \in {0, cooldownMs - 1}}

Slots == 1..MaxInflight

\* Which store call throws during one run of a listener ("none": no call).
LevelFaults == {"none", "getCfg", "getUser", "upsertUser", "setLastXP"}
CfgFaults == {"none", "getCfg", "upsertCfg"}

VARIABLES
    now,           \* Date.now()
    guild_config,  \* table guild_config: a set of rows, at most one per guild_id
    users,         \* table users: a set of rows, at most one per (guild_id, user_id)
    memberRoles,   \* roles each member holds in the guild
    editable,      \* roles the bot may grant and revoke (role.editable)
    tasks,         \* listeners in progress: parked at an await, or inside the level-up loop
    unhandled,     \* listeners whose promise rejected with nobody catching it
    grantAt,       \* history: when the XP of each member was last written
    gained,        \* history: sum of the gains written for each member
    written,       \* history: per guild, the value last supplied for each config field
    sent           \* the channel posts issued by the latest run of a listener

vars == <<now, guild_config, users, memberRoles, editable, tasks, unhandled,
          grantAt, gained, written, sent>>

Idle == [kind |-> "idle"]

\* The slot a newly parked listener takes.
FreeSlot == CHOOSE s \in Slots : tasks[s] = Idle /\ \A q \in Slots : q < s => tasks[q] # Idle

HasFreeSlot == \E s \in Slots : tasks[s] = Idle

\* Node 18 ends the process on a rejection nobody handles (and on an 'error'
\* event nobody listens to): listeners run only while none has escaped.
Alive == unhandled = {}

\* ------------------------------------------------------------------ tables
TheRow(rows) == CHOOSE r \in rows : TRUE

\* db.prepare('SELECT * FROM guild_config WHERE guild_id = ?').get(g)
getCfg(g) == {r \in guild_config : r.guild_id = g}

\* INSERT ... ON CONFLICT(guild_id) DO UPDATE SET every column = excluded
upsertCfg(row) == {r \in guild_config : r.guild_id # row.guild_id} \cup {row}

\* getCfg.get(g)?.field || null
FieldOrNull(rows, f) ==
    IF rows = {} THEN Null
    ELSE IF TheRow(rows)[f] = "" THEN Null ELSE TheRow(rows)[f]

\* getCfg.get(g)?.leveling_enabled ?? 1
LevelingOrOne(rows) == IF rows = {} THEN 1 ELSE TheRow(rows).leveling_enabled

\* db.prepare('SELECT * FROM users WHERE guild_id = ? AND user_id = ?').get(g, u)
getUser(g, u) == {r \in users : r.guild_id = g /\ r.user_id = u}

\* INSERT ... ON CONFLICT(guild_id, user_id) DO UPDATE SET xp, level
\* (an existing row keeps its last_xp_ts)
upsertUser(tbl, row) ==
    IF \E r \in tbl : r.guild_id = row.guild_id /\ r.user_id = row.user_id
    THEN {IF r.guild_id = row.guild_id /\ r.user_id = row.user_id
          THEN [r EXCEPT !.xp = row.xp, !.level = row.level]
          ELSE r : r \in tbl}
    ELSE tbl \cup {row}

\* UPDATE users SET last_xp_ts = ? WHERE guild_id = ? AND user_id = ?
setLastXP(tbl, ts, g, u) ==
    {IF r.guild_id = g /\ r.user_id = u THEN [r EXCEPT !.last_xp_ts = ts] ELSE r : r \in tbl}

\* ---------------------------------------------------------------- level math
\* The threshold with the sign of its square term turned.
xpForNextShrinking(level) == 50 * level + 100 - 5 * level * level

\* The threshold at a tenth of its size.
xpForNextTenth(level) == (5 * level * level + 50 * level + 100) \div 10

\* 5 * level * level + 50 * level + 100
xpForNext(level) == 5 * level * level + 50 * level + 100

\* The loop test of the level-up loop with the boundary left out.
RolloverStrict(newXP, next) == newXP > next

\* while (newXP >= next)
Rollover(newXP, next) == newXP >= next

\* The loop body dropping what is left over a threshold.
CarryNone(newXP, next) == 0

\* newXP -= next
Carry(newXP, next) == newXP - next

RECURSIVE LevelLoop(_, _, _)
LevelLoop(newXP, level, leveledUp) ==
    IF Rollover(newXP, xpForNext(level))
    THEN LevelLoop(Carry(newXP, xpForNext(level)), level + 1, TRUE)
    ELSE [xp |-> newXP, level |-> level, leveledUp |-> leveledUp]

\* The zero record taken whether or not a row is stored.
RecZero(g, u) == [guild_id |-> g, user_id |-> u, xp |-> 0, level |-> 0, last_xp_ts |-> 0]

\* getUser.get(...) || { guild_id, user_id, xp: 0, level: 0, last_xp_ts: 0 }
RecOrZero(g, u) ==
    IF getUser(g, u) = {}
    THEN [guild_id |-> g, user_id |-> u, xp |-> 0, level |-> 0, last_xp_ts |-> 0]
    ELSE TheRow(getUser(g, u))

\* if (!cfg || cfg.leveling_enabled !== 1) return;
LevelingOff(cfg) == cfg = {} \/ TheRow(cfg).leveling_enabled # 1

\* The cooldown gate one millisecond short.
OnCooldownShort(t, rec) == t - rec.last_xp_ts < cooldownMs - 1

\* if (now - rec.last_xp_ts < cooldownMs) return;
OnCooldown(t, rec) == t - rec.last_xp_ts < cooldownMs

\* The leveling section of messageCreate, run at clock value `now` with the
\* random draw `gain`; `fault` is the store call that throws, if reached.
\* The section holds no await: it is one uninterrupted run.
\* outcome: NoOp | Gained | LeveledUp | Threw; wrote: xp/level were persisted.
Leveling(g, u, gain, fault) ==
    LET stop(o, f) == [users |-> users, outcome |-> o, fault |-> f, wrote |-> FALSE]
    IN
    IF fault = "getCfg" THEN stop("Threw", "getCfg")
    ELSE IF LevelingOff(getCfg(g)) THEN stop("NoOp", "none")
    ELSE IF fault = "getUser" THEN stop("Threw", "getUser")
    ELSE
      LET rec == RecOrZero(g, u) IN
      IF OnCooldown(now, rec) THEN stop("NoOp", "none")
      ELSE
        LET up == LevelLoop(rec.xp + gain, rec.level, FALSE)
            t1 == upsertUser(users, [guild_id |-> g, user_id |-> u, xp |-> up.xp,
                                     level |-> up.level, last_xp_ts |-> rec.last_xp_ts])
            t2 == setLastXP(t1, now, g, u)
        IN
        IF fault = "upsertUser" THEN stop("Threw", "upsertUser")
        ELSE IF fault = "setLastXP"
             THEN [users |-> t1, outcome |-> "Threw", fault |-> "setLastXP", wrote |-> TRUE]
             ELSE [users |-> t2,
                   outcome |-> IF up.leveledUp THEN "LeveledUp" ELSE "Gained",
                   fault |-> "none", wrote |-> TRUE]

\* ------------------------------------------------------------------- automod
\* Message text is a sequence of fragments; a fragment is the unit the
\* invite pattern can match.  Lower is the case folding of the /i flag.
Lower(frag) ==
    CASE frag = "DISCORD.GG/" -> "discord.gg/"
      [] frag = "Discord.Com/Invite/" -> "discord.com/invite/"
      [] OTHER -> frag

InvitePatterns == {"discord.gg/", "discord.com/invite/"}

\* /(discord\.gg\/|discord\.com\/invite\/)/i.test(message.content)
InviteTest(content) == \E i \in DOMAIN content : Lower(content[i]) \in InvitePatterns

\* The tenure test with the boundary on the other side.
IsNewMemberIncl(joinedAgoMs) == joinedAgoMs <= sevenDays

\* joinedAgoMs < sevenDays
IsNewMember(joinedAgoMs) == joinedAgoMs < sevenDays

\* isInvite && joinedAgoMs < sevenDays && !member.permissions.has(ManageMessages)
AutomodBlocks(content, joinedTimestamp, hasManageMessages) ==
    /\ InviteTest(content)
    /\ IsNewMember(now - joinedTimestamp)
    /\ ~hasManageMessages

Contents ==
    { <<"hello">>,
      <<"join ", "discord.gg/", "abc">>,
      <<"DISCORD.GG/", "abc">>,
      <<"https://", "Discord.Com/Invite/", "x">>,
      <<"discord.com/", "channels/1">>,
      <<"discord-gg/", "abc">> }

Ages == {0, sevenDays - 1, sevenDays}

\* Every shape of message the gateway may deliver.
AllMsgs ==
    [bot : BOOLEAN, inGuild : BOOLEAN, content : Contents, ago : Ages, perm : BOOLEAN]

\* The shapes automod lets through to leveling, and a bot's message: plain
\* chat, an invite from a moderator, an invite from a member of seven days.
LevelMsgs ==
    { [bot |-> FALSE, inGuild |-> TRUE, content |-> <<"hello">>, ago |-> 0, perm |-> FALSE],
      [bot |-> TRUE, inGuild |-> TRUE, content |-> <<"hello">>, ago |-> 0, perm |-> FALSE],
      [bot |-> FALSE, inGuild |-> TRUE, content |-> <<"join ", "discord.gg/", "abc">>, ago |-> 0, perm |-> TRUE],
      [bot |-> FALSE, inGuild |-> TRUE, content |-> <<"DISCORD.GG/", "abc">>, ago |-> sevenDays, perm |-> FALSE] }

\* The shapes that exercise automod: both sides of the tenure boundary, a
\* moderator, a bot.
GuardMsgs ==
    { [bot |-> FALSE, inGuild |-> TRUE, content |-> <<"hello">>, ago |-> 0, perm |-> FALSE],
      [bot |-> FALSE, inGuild |-> TRUE, content |-> <<"join ", "discord.gg/", "abc">>, ago |-> sevenDays, perm |-> FALSE],
      [bot |-> FALSE, inGuild |-> TRUE, content |-> <<"join ", "discord.gg/", "abc">>, ago |-> sevenDays - 1, perm |-> FALSE],
      [bot |-> FALSE, inGuild |-> TRUE, content |-> <<"https://", "Discord.Com/Invite/", "x">>, ago |-> 0, perm |-> TRUE],
      [bot |-> TRUE, inGuild |-> TRUE, content |-> <<"join ", "discord.gg/", "abc">>, ago |-> 0, perm |-> FALSE] }

\* --------------------------------------------------------------- messageCreate
RECURSIVE SumOver(_, _)
SumOver(f, S) ==
    IF S = {} THEN 0
    ELSE LET k == CHOOSE x \in S : TRUE IN f[k] + SumOver(f, S \ {k})

\* The listener with the automod section left out.
DispatchUnguarded(m) == IF ~m.inGuild \/ m.bot THEN "ignore" ELSE "level"

\* Where the listener takes a message: out at the first line, into the block
\* branch, or on to the leveling section.  The member joined `m.ago` ago.
Dispatch(m) ==
    IF ~m.inGuild \/ m.bot THEN "ignore"
    ELSE IF AutomodBlocks(m.content, now - m.ago, m.perm) THEN "block"
    ELSE "level"

\* if (leveledUp) message.channel.send(...).catch(() => {}): reached only when
\* both writes went through.
Notice(outcome) == IF outcome = "LeveledUp" THEN {"notice"} ELSE {}

\* client.on('messageCreate', ...): the run from the event to the first await
\* (the block branch) or to the end of the listener (every other path).
MessageCreate(g, u, m, gain, fault) ==
    /\ Alive
    /\ IF Dispatch(m) = "ignore"
       THEN /\ sent' = {}
            /\ UNCHANGED <<users, tasks, unhandled, grantAt, gained>>
       ELSE IF Dispatch(m) = "block"
       THEN \* await message.delete().catch(() => {})
            /\ HasFreeSlot
            /\ tasks' = [tasks EXCEPT ![FreeSlot] =
                           [kind |-> "block", pc |-> "delete", g |-> g, u |-> u,
                            msg |-> m, did |-> {}]]
            /\ sent' = {}
            /\ UNCHANGED <<users, unhandled, grantAt, gained>>
       ELSE LET r == Leveling(g, u, gain, fault) IN
            /\ r.wrote => SumOver(gained, DOMAIN gained) + gain <= MaxXp
            /\ users' = r.users
            /\ unhandled' = IF r.outcome = "Threw" THEN unhandled \cup {"message"}
                            ELSE unhandled
            /\ grantAt' = IF r.wrote THEN [grantAt EXCEPT ![<<g, u>>] = now] ELSE grantAt
            /\ gained' = IF r.wrote THEN [gained EXCEPT ![<<g, u>>] = @ + gain] ELSE gained
            /\ sent' = Notice(r.outcome)
            /\ UNCHANGED tasks
    /\ UNCHANGED <<now, guild_config, memberRoles, editable, written>>

\* message.delete() settles (a rejection is swallowed by its .catch); the
\* listener goes on to await message.channel.send(warning).catch(() => {}).
BlockDeleted(s, ok) ==
    /\ Alive
    /\ tasks[s].kind = "block" /\ tasks[s].pc = "delete"
    /\ tasks' = [tasks EXCEPT ![s].pc = "warn",
                              ![s].did = @ \cup {IF ok THEN "deleted" ELSE "delete failed"}]
    /\ sent' = {"warning"}
    /\ UNCHANGED <<now, guild_config, users, memberRoles, editable, unhandled,
                   grantAt, gained, written>>

\* The warning settles (swallowed likewise); then getCfg.get, the log channel
\* lookup, log.send(...) with nobody awaiting or catching it, and return.
\* logUsable: the configured channel is in the cache and text based.
BlockWarned(s, ok, fault, logUsable, logOk) ==
    /\ Alive
    /\ tasks[s].kind = "block" /\ tasks[s].pc = "warn"
    /\ LET g == tasks[s].g
           audits == /\ fault = "none"
                     /\ FieldOrNull(getCfg(g), "log_channel_id") # Null
                     /\ logUsable
           escaped == fault = "getCfg" \/ (audits /\ ~logOk)
       IN /\ unhandled' = IF escaped THEN unhandled \cup {"message"} ELSE unhandled
          /\ sent' = IF audits THEN {"block audit"} ELSE {}
    /\ tasks' = [tasks EXCEPT ![s] = Idle]
    /\ UNCHANGED <<now, guild_config, users, memberRoles, editable,
                   grantAt, gained, written>>

\* ------------------------------------------- the leveling section, by statement
\* The leveling section of messageCreate followed one loop iteration at a
\* time, no store call failing.  Nothing else runs while a listener is inside
\* the section.
InSection == \E s \in Slots : tasks[s].kind = "level"

\* Lines 384-397: the two early returns, the draw, and the loop variables
\* as they stand before the first loop test.
LevelBegin(g, u, gain) ==
    /\ Alive
    /\ ~InSection
    /\ IF LevelingOff(getCfg(g)) \/ OnCooldown(now, RecOrZero(g, u))
       THEN UNCHANGED tasks
       ELSE /\ HasFreeSlot
            /\ LET rec == RecOrZero(g, u) IN
               tasks' = [tasks EXCEPT ![FreeSlot] =
                           [kind |-> "level", pc |-> "loop", g |-> g, u |-> u,
                            rec |-> rec, gain |-> gain, iters |-> 0,
                            newXP |-> rec.xp + gain, level |-> rec.level,
                            next |-> xpForNext(rec.level), leveledUp |-> FALSE]]
    /\ sent' = {}
    /\ UNCHANGED <<now, guild_config, users, memberRoles, editable, unhandled,
                   grantAt, gained, written>>

\* One pass through the body of `while (newXP >= next)`.
LoopIterate(s) ==
    /\ tasks[s].kind = "level"
    /\ Rollover(tasks[s].newXP, tasks[s].next)
    /\ tasks' = [tasks EXCEPT ![s].newXP = Carry(tasks[s].newXP, tasks[s].next),
                              ![s].level = @ + 1,
                              ![s].next = xpForNext(tasks[s].level + 1),
                              ![s].leveledUp = TRUE,
                              ![s].iters = @ + 1]
    /\ UNCHANGED <<now, guild_config, users, memberRoles, editable, unhandled,
                   grantAt, gained, written, sent>>

\* The loop test fails: upsertUser.run, setLastXP.run and the notice.
LoopExit(s) ==
    /\ tasks[s].kind = "level"
    /\ ~Rollover(tasks[s].newXP, tasks[s].next)
    /\ LET t == tasks[s] IN
          /\ users' = setLastXP(upsertUser(users, [guild_id |-> t.g, user_id |-> t.u,
                                                   xp |-> t.newXP, level |-> t.level,
                                                   last_xp_ts |-> t.rec.last_xp_ts]),
                                now, t.g, t.u)
          /\ grantAt' = [grantAt EXCEPT ![<<t.g, t.u>>] = now]
          /\ gained' = [gained EXCEPT ![<<t.g, t.u>>] = @ + t.gain]
          /\ sent' = Notice(IF t.leveledUp THEN "LeveledUp" ELSE "Gained")
    /\ tasks' = [tasks EXCEPT ![s] = Idle]
    /\ UNCHANGED <<now, guild_config, memberRoles, editable, unhandled, written>>

\* A cooldown window passes between two messages.
WindowPasses ==
    /\ ~InSection
    /\ now < StartTime + MaxLoopWindows * cooldownMs
    /\ now' = now + cooldownMs
    /\ UNCHANGED <<guild_config, users, memberRoles, editable, tasks, unhandled,
                   grantAt, gained, written, sent>>

\* ------------------------------------------------------------ config commands
\* The object handed to upsertCfg.run by each handler.
SetWelcomeRow(g, channel, message) ==
    [guild_id |-> g,
     welcome_channel_id |-> channel,
     welcome_message |-> message,
     autorole_id |-> FieldOrNull(getCfg(g), "autorole_id"),
     leveling_enabled |-> LevelingOrOne(getCfg(g)),
     log_channel_id |-> FieldOrNull(getCfg(g), "log_channel_id")]

SetAutoroleRow(g, role) ==
    [guild_id |-> g,
     autorole_id |-> role,
     welcome_channel_id |-> FieldOrNull(getCfg(g), "welcome_channel_id"),
     welcome_message |-> FieldOrNull(getCfg(g), "welcome_message"),
     leveling_enabled |-> LevelingOrOne(getCfg(g)),
     log_channel_id |-> FieldOrNull(getCfg(g), "log_channel_id")]

ToggleLevelingRow(g, enabled) ==
    [guild_id |-> g,
     leveling_enabled |-> IF enabled THEN 1 ELSE 0,
     welcome_channel_id |-> FieldOrNull(getCfg(g), "welcome_channel_id"),
     welcome_message |-> FieldOrNull(getCfg(g), "welcome_message"),
     autorole_id |-> FieldOrNull(getCfg(g), "autorole_id"),
     log_channel_id |-> FieldOrNull(getCfg(g), "log_channel_id")]

\* handleSetLog with the leveling flag written as the column default
\* instead of the stored value.
SetLogRowDefaulting(g, channel) ==
    [guild_id |-> g,
     log_channel_id |-> channel,
     welcome_channel_id |-> FieldOrNull(getCfg(g), "welcome_channel_id"),
     welcome_message |-> FieldOrNull(getCfg(g), "welcome_message"),
     autorole_id |-> FieldOrNull(getCfg(g), "autorole_id"),
     leveling_enabled |-> 1]

\* handleSetLog with the autorole left out of the merged object.
SetLogRowClearing(g, channel) ==
    [guild_id |-> g,
     log_channel_id |-> channel,
     welcome_channel_id |-> FieldOrNull(getCfg(g), "welcome_channel_id"),
     welcome_message |-> FieldOrNull(getCfg(g), "welcome_message"),
     autorole_id |-> Null,
     leveling_enabled |-> LevelingOrOne(getCfg(g))]

SetLogRow(g, channel) ==
    [guild_id |-> g,
     log_channel_id |-> channel,
     welcome_channel_id |-> FieldOrNull(getCfg(g), "welcome_channel_id"),
     welcome_message |-> FieldOrNull(getCfg(g), "welcome_message"),
     autorole_id |-> FieldOrNull(getCfg(g), "autorole_id"),
     leveling_enabled |-> LevelingOrOne(getCfg(g))]

\* A command handler: getCfg.get three times and upsertCfg.run in one run,
\* then `await interaction.reply(...)`.  The listener returns the handler's
\* promise without awaiting it, so its try/catch sees no rejection of it.
\* `supplied` are the columns the command sets.
Command(name, g, row, supplied, fault) ==
    /\ Alive
    /\ HasFreeSlot
    /\ IF fault # "none"
       THEN /\ unhandled' = unhandled \cup {"command"}
            /\ UNCHANGED <<guild_config, tasks, written>>
       ELSE /\ guild_config' = upsertCfg(row)
            /\ written' = [written EXCEPT ![g] =
                             [f \in DOMAIN @ |-> IF f \in supplied THEN row[f] ELSE @[f]]]
            /\ tasks' = [tasks EXCEPT ![FreeSlot] =
                           [kind |-> "command", pc |-> "reply", g |-> g, name |-> name]]
            /\ UNCHANGED unhandled
    /\ sent' = {}
    /\ UNCHANGED <<now, users, memberRoles, editable, grantAt, gained>>

handleSetWelcome(g, channel, message, fault) ==
    Command("setwelcome", g, SetWelcomeRow(g, channel, message),
            {"welcome_channel_id", "welcome_message"}, fault)

handleSetAutorole(g, role, fault) ==
    Command("setautorole", g, SetAutoroleRow(g, role), {"autorole_id"}, fault)

handleToggleLeveling(g, enabled, fault) ==
    Command("toggleleveling", g, ToggleLevelingRow(g, enabled), {"leveling_enabled"}, fault)

handleSetLog(g, channel, fault) ==
    Command("setlog", g, SetLogRow(g, channel), {"log_channel_id"}, fault)

\* interaction.reply(...) of a command handler settles; a rejection rejects
\* the handler's promise, and with it the listener's.
CommandReplied(s, ok) ==
    /\ Alive
    /\ tasks[s].kind = "command" /\ tasks[s].pc = "reply"
    /\ unhandled' = IF ok THEN unhandled ELSE unhandled \cup {"command"}
    /\ tasks' = [tasks EXCEPT ![s] = Idle]
    /\ sent' = {}
    /\ UNCHANGED <<now, guild_config, users, memberRoles, editable,
                   grantAt, gained, written>>

\* ------------------------------------------------------- role menu selection
\* The candidate roles a menu offers (component.options), and a role no menu offers.
Menus == {{"rA", "rB"}}

\* The reset step taking the roles the member picked instead of the menu's.
ToRemovePicked(held, manageable, selected) == {r \in held : r \in selected}

\* member.roles.cache.filter(r => manageable.includes(r.id))
ToRemove(held, manageable, selected) == {r \in held : r \in manageable}

\* roleIds.filter(rid => interaction.guild.roles.cache.get(rid)?.editable)
Manageable(roleIds) == {rid \in roleIds : rid \in editable}

\* member.roles.add(selected): the roles named in the add request
ToAdd(selected) == selected

\* Another selection of the same member is parked: neither runs alone.
\* `peers` counts the other selections of the member a selection has met in
\* flight: 0, 1, or 2 for more than one.
Overlapped(u) ==
    [s \in Slots |->
        IF tasks[s].kind = "select" /\ tasks[s].u = u
        THEN [tasks[s] EXCEPT !.alone = FALSE,
                              !.peers = IF @ = 0 THEN 1 ELSE 2]
        ELSE tasks[s]]

\* The catch block leaving the interaction without a reply.
ToCatchSilent(s) == [tasks EXCEPT ![s] = Idle]

\* The catch block: console.error, then `await interaction.reply(failure)`
\* inside its own try/catch.
ToCatch(s) == [tasks EXCEPT ![s].pc = "failreply", ![s].req = {}]

\* client.on('interactionCreate') for a string select menu: the run up to
\* `await interaction.guild.members.fetch(...)`.
SelectMenu(g, u, roleIds, selected, inNamespace) ==
    /\ Alive
    /\ IF ~inNamespace
       THEN UNCHANGED tasks
       ELSE /\ HasFreeSlot
            /\ LET met == {s \in Slots : tasks[s].kind = "select" /\ tasks[s].u = u}
               IN tasks' = [Overlapped(u) EXCEPT ![FreeSlot] =
                              [kind |-> "select", pc |-> "fetch", g |-> g, u |-> u,
                               roleIds |-> roleIds, selected |-> selected,
                               req |-> {}, alone |-> met = {},
                               peers |-> IF Cardinality(met) < 2 THEN Cardinality(met)
                                         ELSE 2]]
    /\ sent' = {}
    /\ UNCHANGED <<now, guild_config, users, memberRoles, editable, unhandled,
                   grantAt, gained, written>>

\* The member fetch settles; on success the manageable filter and toRemove
\* are computed from the roles held now and member.roles.remove is awaited.
SelectFetched(s, ok) ==
    /\ Alive
    /\ tasks[s].kind = "select" /\ tasks[s].pc = "fetch"
    /\ tasks' = IF ok
                THEN [tasks EXCEPT ![s].pc = "remove",
                                   ![s].req = ToRemove(memberRoles[tasks[s].u],
                                                       Manageable(tasks[s].roleIds),
                                                       tasks[s].selected)]
                ELSE ToCatch(s)
    /\ sent' = {}
    /\ UNCHANGED <<now, guild_config, users, memberRoles, editable, unhandled,
                   grantAt, gained, written>>

\* member.roles.remove settles; on success the roles are gone and
\* member.roles.add is awaited.
SelectRemoved(s, ok) ==
    /\ Alive
    /\ tasks[s].kind = "select" /\ tasks[s].pc = "remove"
    /\ IF ok
       THEN /\ memberRoles' = [memberRoles EXCEPT ![tasks[s].u] = @ \ tasks[s].req]
            /\ tasks' = [tasks EXCEPT ![s].pc = "add",
                                      ![s].req = ToAdd(tasks[s].selected)]
       ELSE /\ tasks' = ToCatch(s)
            /\ UNCHANGED memberRoles
    /\ sent' = {}
    /\ UNCHANGED <<now, guild_config, users, editable, unhandled,
                   grantAt, gained, written>>

\* member.roles.add settles.  The gateway refuses a request that grants a
\* role the bot may not manage; any request may fail in transit.
SelectAdded(s, ok) ==
    /\ Alive
    /\ tasks[s].kind = "select" /\ tasks[s].pc = "add"
    /\ ok => (tasks[s].req \ memberRoles[tasks[s].u]) \subseteq editable
    /\ IF ok
       THEN /\ memberRoles' = [memberRoles EXCEPT ![tasks[s].u] = @ \cup tasks[s].req]
            /\ tasks' = [tasks EXCEPT ![s].pc = "reply", ![s].req = {}]
       ELSE /\ tasks' = ToCatch(s)
            /\ UNCHANGED memberRoles
    /\ sent' = {}
    /\ UNCHANGED <<now, guild_config, users, editable, unhandled,
                   grantAt, gained, written>>

\* The reply 'Your roles were updated.' settles; a rejection goes to the catch.
SelectReplied(s, ok) ==
    /\ Alive
    /\ tasks[s].kind = "select" /\ tasks[s].pc = "reply"
    /\ tasks' = IF ok THEN [tasks EXCEPT ![s] = Idle] ELSE ToCatch(s)
    /\ sent' = {}
    /\ UNCHANGED <<now, guild_config, users, memberRoles, editable, unhandled,
                   grantAt, gained, written>>

\* The reply 'Something went wrong.' settles; its own try/catch swallows a
\* rejection.
SelectFailReplied(s, ok) ==
    /\ Alive
    /\ tasks[s].kind = "select" /\ tasks[s].pc = "failreply"
    /\ tasks' = [tasks EXCEPT ![s] = Idle]
    /\ sent' = {}
    /\ UNCHANGED <<now, guild_config, users, memberRoles, editable, unhandled,
                   grantAt, gained, written>>

\* ------------------------------------------------------------ guildMemberAdd
\* The rest of the listener once the autorole is past: the welcome post
\* (sent with a .catch, not awaited) and the join audit line (log.send with
\* nobody awaiting or catching it).  `cfg` and `logUsable` are the row and the
\* log channel lookup taken at the top of the listener; welcomeUsable: the
\* welcome or system channel is in the cache and text based.
JoinTail(cfg, logUsable, welcomeUsable, logOk) ==
    LET audits == FieldOrNull(cfg, "log_channel_id") # Null /\ logUsable IN
    [sent |-> (IF welcomeUsable THEN {"welcome"} ELSE {})
                 \cup (IF audits THEN {"join audit"} ELSE {}),
     escaped |-> audits /\ ~logOk]

\* client.on('guildMemberAdd', ...): the run up to
\* `await member.roles.add(role).catch(() => {})`, or to the end of the
\* listener when no autorole is set or the role is not editable.
GuildMemberAdd(g, u, fault, logUsable, welcomeUsable, logOk) ==
    /\ Alive
    /\ IF fault = "getCfg"
       THEN /\ unhandled' = unhandled \cup {"join store"}
            /\ sent' = {}
            /\ UNCHANGED tasks
       ELSE LET cfg == getCfg(g)
                role == FieldOrNull(cfg, "autorole_id")
                tail == JoinTail(cfg, logUsable, welcomeUsable, logOk)
            IN IF role # Null /\ role \in editable
               THEN /\ HasFreeSlot
                    /\ tasks' = [tasks EXCEPT ![FreeSlot] =
                                   [kind |-> "join", pc |-> "autorole", g |-> g, u |-> u,
                                    cfg |-> cfg, role |-> role, logUsable |-> logUsable]]
                    /\ sent' = {}
                    /\ UNCHANGED unhandled
               ELSE /\ sent' = tail.sent
                    /\ unhandled' = IF tail.escaped THEN unhandled \cup {"join"}
                                    ELSE unhandled
                    /\ UNCHANGED tasks
    /\ UNCHANGED <<now, guild_config, users, memberRoles, editable,
                   grantAt, gained, written>>

\* member.roles.add(role) settles (a rejection is swallowed by its .catch);
\* the listener runs on to its end.
JoinRoleAdded(s, ok, welcomeUsable, logOk) ==
    /\ Alive
    /\ tasks[s].kind = "join" /\ tasks[s].pc = "autorole"
    /\ memberRoles' = IF ok THEN [memberRoles EXCEPT ![tasks[s].u] = @ \cup {tasks[s].role}]
                      ELSE memberRoles
    /\ LET tail == JoinTail(tasks[s].cfg, tasks[s].logUsable, welcomeUsable, logOk) IN
          /\ sent' = tail.sent
          /\ unhandled' = IF tail.escaped THEN unhandled \cup {"join"} ELSE unhandled
    /\ tasks' = [tasks EXCEPT ![s] = Idle]
    /\ UNCHANGED <<now, guild_config, users, editable, grantAt, gained, written>>

\* ------------------------------------------------------------ process, clock
\* `node bot.js` again after the process ended: the database file is kept
\* (CREATE TABLE IF NOT EXISTS), parked listeners are gone.
Restart ==
    /\ ~Alive
    /\ unhandled' = {}
    /\ tasks' = [s \in Slots |-> Idle]
    /\ sent' = {}
    /\ UNCHANGED <<now, guild_config, users, memberRoles, editable,
                   grantAt, gained, written>>

Tick ==
    /\ \E t \in Times : t > now /\ now' = t
    /\ UNCHANGED <<guild_config, users, memberRoles, editable, tasks, unhandled,
                   grantAt, gained, written, sent>>

\* ----------------------------------------------------------------------- Init
\* The column defaults of guild_config.
DefaultCfg ==
    [welcome_channel_id |-> Null, welcome_message |-> Null, autorole_id |-> Null,
     leveling_enabled |-> 1, log_channel_id |-> Null]

\* A fresh database file, nobody holding a menu role yet, no listener running.
Init ==
    /\ now = StartTime
    /\ guild_config = {}
    /\ users = {}
    /\ memberRoles = [u \in Members |-> {}]
    /\ editable = Roles
    /\ tasks = [s \in Slots |-> Idle]
    /\ unhandled = {}
    /\ grantAt = [k \in Guilds \X Members |-> 0]
    /\ gained = [k \in Guilds \X Members |-> 0]
    /\ written = [g \in Guilds |-> DefaultCfg]
    /\ sent = {}

\* --------------------------------------------------------------- specifications
LevelMessage ==
    \E g \in Guilds, u \in Chatters, m \in LevelMsgs, gain \in Gains, fault \in LevelFaults :
        MessageCreate(g, u, m, gain, fault)

BlockDeleteSettles == \E s \in Slots, ok \in BOOLEAN : BlockDeleted(s, ok)

BlockWarnSettles ==
    \E s \in Slots, ok \in BOOLEAN, fault \in {"none", "getCfg"},
       logUsable \in BOOLEAN, logOk \in BOOLEAN :
        BlockWarned(s, ok, fault, logUsable, logOk)

ToggleLeveling ==
    \E g \in Guilds, enabled \in BOOLEAN, fault \in CfgFaults :
        handleToggleLeveling(g, enabled, fault)

CommandReplySettles == \E s \in Slots, ok \in BOOLEAN : CommandReplied(s, ok)

NextLevel ==
    \/ LevelMessage
    \/ ToggleLeveling
    \/ CommandReplySettles
    \/ Restart
    \/ Tick

\* Leveling: the messages automod lets through, the leveling switch, the clock.
SpecLevel == Init /\ [][NextLevel]_vars

GuardMessage ==
    \E g \in Guilds, u \in Chatters, m \in GuardMsgs, gain \in Gains :
        MessageCreate(g, u, m, gain, "none")

SetLog ==
    \E g \in Guilds, channel \in Channels, fault \in CfgFaults :
        handleSetLog(g, channel, fault)

NextAutomod ==
    \/ GuardMessage
    \/ BlockDeleteSettles
    \/ BlockWarnSettles
    \/ SetLog
    \/ CommandReplySettles
    \/ Restart
    \/ Tick

\* Automod: messages on both sides of the block decision, the block branch
\* parked at its awaits while further messages arrive, the log channel.
SpecAutomod == Init /\ [][NextAutomod]_vars

SetWelcome ==
    \E g \in Guilds, channel \in Channels, message \in WelcomeTexts, fault \in CfgFaults :
        handleSetWelcome(g, channel, message, fault)

SetAutorole ==
    \E g \in Guilds, role \in Roles, fault \in CfgFaults :
        handleSetAutorole(g, role, fault)

NextCfg ==
    \/ SetWelcome
    \/ SetAutorole
    \/ ToggleLeveling
    \/ SetLog
    \/ CommandReplySettles
    \/ Restart

\* Configuration: the four config commands, parked at their replies while
\* further commands arrive.
SpecCfg == Init /\ [][NextCfg]_vars

\* Roles as the bot finds them: members hold any roles, granted by hand
\* before; the bot's own role sits above all roles or below rB.
InitRoles ==
    /\ now = StartTime
    /\ guild_config = {}
    /\ users = {}
    /\ memberRoles \in [Members -> SUBSET Roles]
    /\ \A u \in Members \ Chatters : memberRoles[u] = {"rA", "rC"}
    /\ editable \in {Roles, Roles \ {"rB"}}
    /\ tasks = [s \in Slots |-> Idle]
    /\ unhandled = {}
    /\ grantAt = [k \in Guilds \X Members |-> 0]
    /\ gained = [k \in Guilds \X Members |-> 0]
    /\ written = [g \in Guilds |-> DefaultCfg]
    /\ sent = {}

Select ==
    \E g \in Guilds, u \in Chatters, roleIds \in Menus, inNamespace \in BOOLEAN :
        \E selected \in SUBSET roleIds :
            SelectMenu(g, u, roleIds, selected, inNamespace)

SelectFetchSettles == \E s \in Slots, ok \in BOOLEAN : SelectFetched(s, ok)

SelectRemoveSettles == \E s \in Slots, ok \in BOOLEAN : SelectRemoved(s, ok)

SelectAddSettles == \E s \in Slots, ok \in BOOLEAN : SelectAdded(s, ok)

SelectReplySettles == \E s \in Slots, ok \in BOOLEAN : SelectReplied(s, ok)

SelectFailReplySettles == \E s \in Slots, ok \in BOOLEAN : SelectFailReplied(s, ok)

NextRoles ==
    \/ Select
    \/ SelectFetchSettles
    \/ SelectRemoveSettles
    \/ SelectAddSettles
    \/ SelectReplySettles
    \/ SelectFailReplySettles

\* Role menus: selections of one member, up to MaxInflight of them parked at
\* their awaits at a time.
SpecRoles == InitRoles /\ [][NextRoles]_vars

\* A guild whose members are about to join: nobody holds a role yet; the
\* bot's own role sits above all roles or below rB.
InitJoin ==
    /\ now = StartTime
    /\ guild_config = {}
    /\ users = {}
    /\ memberRoles = [u \in Members |-> {}]
    /\ editable \in {Roles, Roles \ {"rB"}}
    /\ tasks = [s \in Slots |-> Idle]
    /\ unhandled = {}
    /\ grantAt = [k \in Guilds \X Members |-> 0]
    /\ gained = [k \in Guilds \X Members |-> 0]
    /\ written = [g \in Guilds |-> DefaultCfg]
    /\ sent = {}

MemberJoins ==
    \E g \in Guilds, u \in Chatters, fault \in {"none", "getCfg"},
       logUsable \in BOOLEAN, welcomeUsable \in BOOLEAN, logOk \in BOOLEAN :
        GuildMemberAdd(g, u, fault, logUsable, welcomeUsable, logOk)

JoinRoleSettles ==
    \E s \in Slots, ok \in BOOLEAN, welcomeUsable \in BOOLEAN, logOk \in BOOLEAN :
        JoinRoleAdded(s, ok, welcomeUsable, logOk)

NextJoin ==
    \/ MemberJoins
    \/ JoinRoleSettles
    \/ SetAutorole
    \/ SetLog
    \/ CommandReplySettles
    \/ Restart

\* Onboarding: joins of a member, parked at the autorole while the autorole
\* and the log channel are set.
SpecJoin == InitJoin /\ [][NextJoin]_vars

\* A guild with leveling switched on (its row as /toggleleveling leaves it),
\* no progression row yet.
InitLoop ==
    /\ now = StartTime
    /\ guild_config = {[guild_id |-> g, welcome_channel_id |-> Null, welcome_message |-> Null,
                        autorole_id |-> Null, leveling_enabled |-> 1,
                        log_channel_id |-> Null] : g \in Guilds}
    /\ users = {}
    /\ memberRoles = [u \in Members |-> {}]
    /\ editable = Roles
    /\ tasks = [s \in Slots |-> Idle]
    /\ unhandled = {}
    /\ grantAt = [k \in Guilds \X Members |-> 0]
    /\ gained = [k \in Guilds \X Members |-> 0]
    /\ written = [g \in Guilds |-> DefaultCfg]
    /\ sent = {}

\* Rows the loop may be started from: for each level, xp at zero, one full
\* draw and one point below the threshold, on it, and far above it.
StoredRecs ==
    {[guild_id |-> g, user_id |-> u, xp |-> xp, level |-> level, last_xp_ts |-> 0] :
        g \in Guilds, u \in Chatters,
        <<level, xp>> \in
            UNION {{<<l, 0>>, <<l, xpForNext(l) - (GainMin + GainSpan - 1)>>,
                    <<l, xpForNext(l) - 1>>, <<l, xpForNext(l)>>,
                    <<l, 3 * xpForNext(l)>>} : l \in 0..MaxStoredLevel}}

\* The same guild with a progression row already stored.
InitLoopStored ==
    /\ now = StartTime
    /\ guild_config = {[guild_id |-> g, welcome_channel_id |-> Null, welcome_message |-> Null,
                        autorole_id |-> Null, leveling_enabled |-> 1,
                        log_channel_id |-> Null] : g \in Guilds}
    /\ \E rec \in StoredRecs : users = {rec}
    /\ memberRoles = [u \in Members |-> {}]
    /\ editable = Roles
    /\ tasks = [s \in Slots |-> Idle]
    /\ unhandled = {}
    /\ grantAt = [k \in Guilds \X Members |-> 0]
    /\ gained = [k \in Guilds \X Members |-> 0]
    /\ written = [g \in Guilds |-> DefaultCfg]
    /\ sent = {}

LevelBegins == \E g \in Guilds, u \in Chatters, gain \in Gains : LevelBegin(g, u, gain)

LoopIterates == \E s \in Slots : LoopIterate(s)

LoopExits == \E s \in Slots : LoopExit(s)

NextLoop ==
    \/ LevelBegins
    \/ LoopIterates
    \/ LoopExits
    \/ WindowPasses

\* Progression from nothing: up to five grants, a window apart.
SpecLoop == InitLoop /\ [][NextLoop]_vars

\* The level-up loop started from any stored row.
SpecLoopStored == InitLoopStored /\ [][NextLoop]_vars

\* A listener inside the section runs on: Node does not leave a synchronous
\* run before its end.
SpecLoopStoredFair == SpecLoopStored /\ WF_vars(LoopIterates \/ LoopExits)

\* ---------------------------------------------------------------- properties
\* XP needed from (0, 0) to reach `level`: the thresholds of the levels below.
RECURSIVE XpBelow(_)
XpBelow(level) ==
    IF level = 0 THEN 0
    ELSE 5 * (level - 1) * (level - 1) + 50 * (level - 1) + 100 + XpBelow(level - 1)

\* C1: every persisted progression row has 0 <= xp < 5*level^2 + 50*level + 100,
\* whatever gains in 15..25 the messages drew.
C1_XpInvariant ==
    \A r \in users :
        /\ r.level >= 0
        /\ 0 <= r.xp
        /\ r.xp < 5 * r.level * r.level + 50 * r.level + 100

\* A row that went through the level-up loop.
C1_Witness == \E r \in users : r.level >= 1

\* C2: a member already granted XP is granted XP again only once a full
\* cooldown window has passed since that grant (a message inside the window
\* leaves xp and level as they were).
C2_Cooldown ==
    [][\A g \in Guilds, u \in Members :
          LET before == {<<r.xp, r.level>> : r \in {q \in users : q.guild_id = g /\ q.user_id = u}}
              after == {<<r.xp, r.level>> : r \in {q \in users' : q.guild_id = g /\ q.user_id = u}}
          IN (before # {} /\ after # before) => now - grantAt[<<g, u>>] >= 60000]_vars

\* C3: wherever leveling was not turned off (no config row counts as not
\* turned off), a message of a non-bot member that automod lets through, off
\* cooldown and with no store call failing, persists a grant.
C3_EnabledByDefault ==
    \A g \in Guilds, u \in Chatters, m \in LevelMsgs, gain \in Gains :
        ( /\ ~m.bot /\ m.inGuild /\ Dispatch(m) # "block"
          /\ \A c \in guild_config : c.guild_id = g => c.leveling_enabled = 1
          /\ \A r \in users : (r.guild_id = g /\ r.user_id = u) => now - r.last_xp_ts >= 60000
          /\ gained[<<g, u>>] + gain <= MaxXp )
        => Leveling(g, u, gain, "none").wrote

CfgFields ==
    {"welcome_channel_id", "welcome_message", "autorole_id", "leveling_enabled",
     "log_channel_id"}

\* What a guild's configuration reads as: its row, or the column defaults.
CfgView(tbl, g) ==
    IF \E r \in tbl : r.guild_id = g
    THEN LET r == CHOOSE q \in tbl : q.guild_id = g IN [f \in CfgFields |-> r[f]]
    ELSE [f \in CfgFields |-> DefaultCfg[f]]

\* C4: each config command changes only the columns it supplies and leaves
\* every other column at its prior value (a prior leveling_enabled of 0
\* included); it sets what it supplies; and running the same command again on
\* the result would write the same row.
C4_MergeOnWrite ==
    [][\A g \in Guilds :
          LET before == CfgView(guild_config, g)
              after == CfgView(guild_config', g)
              kept(fs) == \A f \in CfgFields \ fs : after[f] = before[f]
              same(row) == \A f \in CfgFields : row[f] = after[f]
          IN
          /\ \A ch \in Channels, txt \in WelcomeTexts, fault \in CfgFaults :
                handleSetWelcome(g, ch, txt, fault) =>
                    /\ kept({"welcome_channel_id", "welcome_message"})
                    /\ fault = "none" =>
                          /\ after.welcome_channel_id = ch /\ after.welcome_message = txt
                          /\ same(SetWelcomeRow(g, ch, txt)')
          /\ \A role \in Roles, fault \in CfgFaults :
                handleSetAutorole(g, role, fault) =>
                    /\ kept({"autorole_id"})
                    /\ fault = "none" =>
                          /\ after.autorole_id = role
                          /\ same(SetAutoroleRow(g, role)')
          /\ \A enabled \in BOOLEAN, fault \in CfgFaults :
                handleToggleLeveling(g, enabled, fault) =>
                    /\ kept({"leveling_enabled"})
                    /\ fault = "none" =>
                          /\ after.leveling_enabled = (IF enabled THEN 1 ELSE 0)
                          /\ same(ToggleLevelingRow(g, enabled)')
          /\ \A ch \in Channels, fault \in CfgFaults :
                handleSetLog(g, ch, fault) =>
                    /\ kept({"log_channel_id"})
                    /\ fault = "none" =>
                          /\ after.log_channel_id = ch
                          /\ same(SetLogRow(g, ch)')
      ]_vars

\* Leveling was switched off, then an autorole and a log channel were merged in.
C4_Witness ==
    \E r \in guild_config :
        r.leveling_enabled = 0 /\ r.autorole_id # Null /\ r.log_channel_id # Null

\* A text of Contents holds an invite link: read off the text, not computed.
InviteTexts ==
    { <<"join ", "discord.gg/", "abc">>,
      <<"DISCORD.GG/", "abc">>,
      <<"https://", "Discord.Com/Invite/", "x">> }

\* C7: the automod section blocks a message exactly when its text holds an
\* invite link, the member joined less than 7 days (604800000 ms) ago and the
\* member lacks ManageMessages; every parked block branch is such a message.
C7_AutomodDecision ==
    /\ \A m \in AllMsgs :
          (m.inGuild /\ ~m.bot) =>
              ( Dispatch(m) = "block"
                <=> (m.content \in InviteTexts /\ m.ago < 604800000 /\ ~m.perm) )
    /\ \A s \in Slots :
          tasks[s].kind = "block" =>
              /\ tasks[s].msg.content \in InviteTexts
              /\ tasks[s].msg.ago < 604800000
              /\ ~tasks[s].msg.perm

\* A block branch parked for an invite of a member who joined 7 days minus 1 ms
\* ago, while a member of exactly 7 days posting the same text is let through.
C7_Witness ==
    /\ \E s \in Slots :
          tasks[s].kind = "block" /\ tasks[s].msg.ago = 604800000 - 1
    /\ Dispatch([bot |-> FALSE, inGuild |-> TRUE, content |-> <<"join ", "discord.gg/", "abc">>,
                 ago |-> 604800000, perm |-> FALSE]) = "level"

\* C8: no grant is lost: the XP a member's row stands for (the thresholds of
\* the levels passed plus xp) is the sum of every gain written for the member,
\* however the listeners of that member's messages overlap.
C8_NoLostUpdate ==
    \A g \in Guilds, u \in Members :
        LET rows == {r \in users : r.guild_id = g /\ r.user_id = u} IN
        /\ Cardinality(rows) <= 1
        /\ rows = {} => gained[<<g, u>>] = 0
        /\ \A r \in rows : XpBelow(r.level) + r.xp = gained[<<g, u>>]

\* Two listeners of one member parked at their awaits at the instant a third
\* message of that member is granted XP on top of an earlier grant.
C8_Witness ==
    \E g \in Guilds, u \in Members :
        /\ \A s \in Slots : tasks[s].kind = "block" /\ tasks[s].u = u /\ tasks[s].g = g
        /\ grantAt[<<g, u>>] = now
        /\ gained[<<g, u>>] >= 30

\* C9: no config column written by a command is lost to another command:
\* each column of a guild's row holds the value last supplied for it (or its
\* default), also while several commands are parked at their replies.
C9_NoLostField ==
    \A g \in Guilds :
        /\ Cardinality({r \in guild_config : r.guild_id = g}) <= 1
        /\ \A r \in guild_config :
              r.guild_id = g => \A f \in CfgFields : r[f] = written[g][f]

\* setautorole and setlog in flight together, both columns in the row.
C9_Witness ==
    /\ \E s \in Slots : tasks[s].kind = "command" /\ tasks[s].name = "setautorole"
    /\ \E s \in Slots : tasks[s].kind = "command" /\ tasks[s].name = "setlog"
    /\ \E r \in guild_config : r.autorole_id # Null /\ r.log_channel_id # Null

\* C5: a selection that ran alone for its member on a menu whose candidates
\* are all manageable, and reached its success reply, leaves the member
\* holding exactly the selected roles among the candidates; no step of a
\* selection changes a role outside its candidates.
C5_Convergence ==
    [][\A s \in Slots, ok \in BOOLEAN :
          /\ (SelectRemoved(s, ok) \/ SelectAdded(s, ok)) =>
                \A u \in Members :
                    memberRoles'[u] \ tasks[s].roleIds = memberRoles[u] \ tasks[s].roleIds
          /\ (SelectReplied(s, TRUE) /\ tasks[s].alone /\ tasks[s].roleIds \subseteq editable) =>
                memberRoles'[tasks[s].u] \cap tasks[s].roleIds = tasks[s].selected
          /\ (SelectAdded(s, TRUE) /\ tasks[s].alone /\ tasks[s].roleIds \subseteq editable) =>
                memberRoles'[tasks[s].u] \cap tasks[s].roleIds = tasks[s].selected
      ]_vars

\* A selection alone, all candidates manageable, past remove and add: the
\* member held rA and rC, picked rB, and now holds rB and rC.
C5_Witness ==
    \E s \in Slots :
        /\ tasks[s].kind = "select" /\ tasks[s].pc = "reply" /\ tasks[s].alone
        /\ tasks[s].roleIds \subseteq editable
        /\ tasks[s].selected = {"rB"}
        /\ memberRoles[tasks[s].u] = {"rB", "rC"}

\* C6: no remove and no add request of a selection names a candidate the bot
\* cannot manage.
C6_UnmanageableExcluded ==
    \A s \in Slots :
        (tasks[s].kind = "select" /\ tasks[s].pc \in {"remove", "add"}) =>
            \A r \in tasks[s].req : r \in tasks[s].roleIds => r \in editable

\* C10: no listener's failure escapes it: nothing is ever left unhandled.
C10_NoEscape == unhandled = {}

\* C11: on a member join no failure of the autorole assignment, the welcome
\* post or the audit post leaves the listener uncaught; and a join whose guild
\* has a usable log channel posts the join audit line at the end of the
\* listener, whether the autorole assignment went through or failed and
\* whether a welcome could be posted or not.
C11_OnboardingContained ==
    [][\A g \in Guilds, u \in Chatters, s \in Slots :
       \A ok \in BOOLEAN, logUsable \in BOOLEAN, welcomeUsable \in BOOLEAN, logOk \in BOOLEAN :
          /\ ( /\ GuildMemberAdd(g, u, "none", logUsable, welcomeUsable, logOk)
               /\ tasks' = tasks )
             => /\ "join" \notin unhandled'
                /\ (FieldOrNull(getCfg(g), "log_channel_id") # Null /\ logUsable)
                      => "join audit" \in sent'
          /\ JoinRoleAdded(s, ok, welcomeUsable, logOk)
             => /\ "join" \notin unhandled'
                /\ (FieldOrNull(tasks[s].cfg, "log_channel_id") # Null /\ tasks[s].logUsable)
                      => "join audit" \in sent'
      ]_vars

\* C11, second half alone: the join audit line is posted whatever became of
\* the autorole assignment and the welcome post.
C11_AuditIndependent ==
    [][\A s \in Slots, ok \in BOOLEAN, welcomeUsable \in BOOLEAN, logOk \in BOOLEAN :
          ( /\ JoinRoleAdded(s, ok, welcomeUsable, logOk)
            /\ FieldOrNull(tasks[s].cfg, "log_channel_id") # Null
            /\ tasks[s].logUsable )
          => "join audit" \in sent'
      ]_vars

\* C12: starting from no row (level 0, xp 0), after any sequence of granted
\* gains the stored (level, xp) is the one pair with xp below the threshold of
\* level and (thresholds of the levels below) + xp = the sum of the gains;
\* five gains of 20 give (0, 20) after the first and (1, 0) at the fifth.
C12_ProgressionMatchesSum ==
    LET threshold(L) == 5 * L * L + 50 * L + 100
        a1 == LevelLoop(0 + 20, 0, FALSE)
        a2 == LevelLoop(a1.xp + 20, a1.level, FALSE)
        a3 == LevelLoop(a2.xp + 20, a2.level, FALSE)
        a4 == LevelLoop(a3.xp + 20, a3.level, FALSE)
        a5 == LevelLoop(a4.xp + 20, a4.level, FALSE)
    IN
    /\ a1 = [xp |-> 20, level |-> 0, leveledUp |-> FALSE]
    /\ a4 = [xp |-> 80, level |-> 0, leveledUp |-> FALSE]
    /\ a5 = [xp |-> 0, level |-> 1, leveledUp |-> TRUE]
    /\ \A g \in Guilds, u \in Members :
          LET rows == {r \in users : r.guild_id = g /\ r.user_id = u}
              sum == gained[<<g, u>>]
          IN
          /\ rows = {} => sum = 0
          /\ \A r \in rows :
                /\ 0 <= r.xp /\ r.xp < threshold(r.level)
                /\ XpBelow(r.level) + r.xp = sum
                /\ \A L \in 0..4 : \A x \in 0..(threshold(L) - 1) :
                      XpBelow(L) + x = sum => (L = r.level /\ x = r.xp)
                /\ sum = 20 => (r.level = 0 /\ r.xp = 20)
                /\ sum = 100 => (r.level = 1 /\ r.xp = 0)

\* The fifth window: a grant just written that brought the sum of the gains
\* to 100 and the row to (1, 0), the notice posted.
C12_Witness ==
    /\ now = StartTime + 4 * cooldownMs
    /\ sent = {"notice"}
    /\ \E r \in users :
          /\ r.level = 1 /\ r.xp = 0 /\ r.last_xp_ts = now
          /\ gained[<<r.guild_id, r.user_id>>] = 100

\* C13: the thresholds grow strictly with the level, and the level-up loop,
\* started from any stored row with xp >= 0 and level >= 0 and any draw, ends:
\* each pass lowers newXP by at least 100 and keeps it at or above zero, the
\* passes number at most (xp + gain) / 100, and a listener inside the loop
\* always reaches the end of the section.
C13_LoopTerminates ==
    /\ [](\A L \in 0..100 : xpForNext(L + 1) > xpForNext(L))
    /\ [][\A s \in Slots :
             LoopIterate(s) =>
                 /\ tasks'[s].newXP >= 0
                 /\ tasks'[s].newXP <= tasks[s].newXP - 100
                 /\ tasks'[s].next > tasks[s].next
                 /\ tasks'[s].iters * 100 <= tasks[s].rec.xp + tasks[s].gain
         ]_vars
    /\ \A s \in Slots : (tasks[s].kind = "level") ~> (tasks[s] = Idle)

\* The loop after its second pass, started from a row far above its threshold.
C13_Witness ==
    \E s \in Slots :
        /\ tasks[s].kind = "level" /\ tasks[s].iters = 2
        /\ tasks[s].rec.xp >= 5 * tasks[s].rec.level * tasks[s].rec.level
                              + 50 * tasks[s].rec.level + 100

\* C20: a granted message whose row stood at 0 <= xp < threshold(level) leaves
\* the level as it was or one higher, never more, whatever the draw in 15..25;
\* and no step lowers the level of a stored row.
C20_AtMostOneLevel ==
    [][/\ \A s \in Slots :
             ( /\ LoopExit(s)
               /\ 0 <= tasks[s].rec.xp
               /\ tasks[s].rec.xp < 5 * tasks[s].rec.level * tasks[s].rec.level
                                    + 50 * tasks[s].rec.level + 100
               /\ tasks[s].gain \in 15..25 )
             => \A r \in users' :
                    (r.guild_id = tasks[s].g /\ r.user_id = tasks[s].u)
                        => r.level \in {tasks[s].rec.level, tasks[s].rec.level + 1}
       /\ \A r \in users : \A q \in users' :
             (q.guild_id = r.guild_id /\ q.user_id = r.user_id) => q.level >= r.level
      ]_vars

\* A row of level 3 one point below its threshold, a draw of 25 on top, the
\* loop past its one pass and about to write level 4.
C20_Witness ==
    \E s \in Slots :
        /\ tasks[s].kind = "level" /\ tasks[s].iters = 1
        /\ tasks[s].rec.level = 3 /\ tasks[s].rec.xp = 294 /\ tasks[s].gain = 25
        /\ tasks[s].level = 4 /\ tasks[s].newXP = 24

\* C14: xp/level and lastGainTimestamp are persisted together: every row that
\* holds granted XP holds the instant of the latest grant as its last_xp_ts,
\* also when a store call failed part-way through the listener.
C14_AtomicUpdate ==
    \A r \in users :
        gained[<<r.guild_id, r.user_id>>] > 0
            => r.last_xp_ts = grantAt[<<r.guild_id, r.user_id>>]

\* C15: a message that meets leveling switched off for its guild, or its
\* author inside the 60000 ms after the stored last_xp_ts, changes no
\* progression row (none created, no xp, level or last_xp_ts changed) and posts no
\* level-up notice.
C15_NoOpUntouched ==
    \A g \in Guilds, u \in Chatters :
        ( \/ \E c \in guild_config : c.guild_id = g /\ c.leveling_enabled = 0
          \/ \E r \in users : r.guild_id = g /\ r.user_id = u
                              /\ now - r.last_xp_ts < 60000 )
        => \A gain \in Gains, fault \in LevelFaults :
              LET r == Leveling(g, u, gain, fault) IN
              /\ r.users = users
              /\ ~r.wrote
              /\ Notice(r.outcome) = {}

\* A member with a row, 59999 ms after the grant, the last run having posted
\* nothing; and leveling switched off for a guild whose member is off cooldown.
C15_Witness ==
    \/ /\ sent = {}
       /\ \E r \in users : r.xp > 0 /\ r.last_xp_ts > 0 /\ now - r.last_xp_ts = 59999
    \/ /\ sent = {}
       /\ \E c \in guild_config : c.leveling_enabled = 0
       /\ \E r \in users : r.xp > 0 /\ now - r.last_xp_ts >= 60000

\* C16: automod decides before leveling.  A message automod blocks (invite
\* text, member of less than 7 days, no ManageMessages) goes to the block
\* branch, and no step that parks, resumes or ends a block branch grants XP,
\* writes a progression row, moves a timestamp or posts a level-up notice; a
\* message automod allows goes to the leveling section, which grants when
\* leveling is on and the member is off cooldown.
C16_AutomodBeforeLeveling ==
    /\ [][\A s \in Slots :
             (tasks'[s] # tasks[s] /\ (tasks[s].kind = "block" \/ tasks'[s].kind = "block"))
                 => (users' = users /\ gained' = gained /\ grantAt' = grantAt
                     /\ "notice" \notin sent')
         ]_vars
    /\ [](\A m \in {x \in GuardMsgs : /\ x.inGuild /\ ~x.bot
                                      /\ x.content \in InviteTexts
                                      /\ x.ago < 604800000 /\ ~x.perm} :
             Dispatch(m) = "block")
    /\ [](\A m \in {x \in GuardMsgs : /\ x.inGuild /\ ~x.bot
                                      /\ ~( /\ x.content \in InviteTexts
                                            /\ x.ago < 604800000 /\ ~x.perm )} :
             /\ Dispatch(m) = "level"
             /\ \A g \in Guilds, u \in Chatters, gain \in Gains :
                   ( /\ \E c \in guild_config : c.guild_id = g /\ c.leveling_enabled = 1
                     /\ \A r \in users : (r.guild_id = g /\ r.user_id = u)
                                            => now - r.last_xp_ts >= 60000 )
                   => /\ Leveling(g, u, gain, "none").wrote
                      /\ \E r \in Leveling(g, u, gain, "none").users :
                            r.guild_id = g /\ r.user_id = u /\ r.last_xp_ts = now)

\* A blocked message parked in the block branch, its author holding XP from
\* an allowed message and off cooldown again, leveling on: had the blocked
\* message reached the leveling section, it would have been granted XP.
C16_Witness ==
    \E s \in Slots :
        /\ tasks[s].kind = "block"
        /\ \E c \in guild_config : c.guild_id = tasks[s].g /\ c.leveling_enabled = 1
        /\ \E r \in users :
              /\ r.guild_id = tasks[s].g /\ r.user_id = tasks[s].u
              /\ r.xp > 0 /\ now - r.last_xp_ts >= 60000
              /\ gained[<<r.guild_id, r.user_id>>] = r.xp

\* C17: when automod blocks a message, the warning is posted whether the
\* delete went through or failed, the audit line is posted to a usable
\* configured log channel whether delete and warning went through or failed,
\* and no failure of one of the three leaves the listener uncaught.
C17_BlockActionsIndependent ==
    [][\A s \in Slots, ok \in BOOLEAN, logUsable \in BOOLEAN, logOk \in BOOLEAN :
          /\ BlockDeleted(s, ok) => "warning" \in sent'
          /\ BlockWarned(s, ok, "none", logUsable, logOk)
             => /\ (FieldOrNull(getCfg(tasks[s].g), "log_channel_id") # Null /\ logUsable)
                      => "block audit" \in sent'
                /\ unhandled' = {}
      ]_vars

\* C17, the attempts alone: each of the three actions is attempted whatever
\* became of the ones before it.
C17_EachAttempted ==
    [][\A s \in Slots, ok \in BOOLEAN, logUsable \in BOOLEAN, logOk \in BOOLEAN :
          /\ BlockDeleted(s, ok) => "warning" \in sent'
          /\ ( /\ BlockWarned(s, ok, "none", logUsable, logOk)
               /\ FieldOrNull(getCfg(tasks[s].g), "log_channel_id") # Null
               /\ logUsable )
             => "block audit" \in sent'
      ]_vars

\* C18: in every role-menu selection the add request is issued only when the
\* remove request has gone through; the success reply is issued only when the
\* add has gone through too; a failure of the fetch, the remove, the add or
\* the success reply leads to the failure reply and to nothing else; the
\* failure reply is never issued after a success reply that was delivered;
\* and a selection outside the role_menu: namespace changes no role and parks
\* no listener, so it is never answered.
C18_OrderAndAck ==
    [][/\ \A s \in Slots :
             /\ ( /\ tasks'[s].kind = "select" /\ tasks'[s].pc = "add"
                  /\ ~(tasks[s].kind = "select" /\ tasks[s].pc = "add") )
                   => /\ SelectRemoved(s, TRUE)
                      /\ memberRoles'[tasks[s].u] = memberRoles[tasks[s].u] \ tasks[s].req
             /\ ( /\ tasks'[s].kind = "select" /\ tasks'[s].pc = "reply"
                  /\ ~(tasks[s].kind = "select" /\ tasks[s].pc = "reply") )
                   => /\ SelectAdded(s, TRUE)
                      /\ tasks[s].selected \subseteq memberRoles'[tasks[s].u]
             /\ (SelectFetched(s, FALSE) \/ SelectRemoved(s, FALSE) \/ SelectAdded(s, FALSE)
                    \/ SelectReplied(s, FALSE))
                   => /\ tasks'[s].kind = "select" /\ tasks'[s].pc = "failreply"
                      /\ memberRoles' = memberRoles
             /\ ( /\ tasks'[s].kind = "select" /\ tasks'[s].pc = "failreply"
                  /\ ~(tasks[s].kind = "select" /\ tasks[s].pc = "failreply") )
                   => ~SelectReplied(s, TRUE)
             /\ (tasks[s].kind = "select" /\ tasks[s].pc = "reply" /\ SelectReplied(s, TRUE))
                   => tasks'[s] = Idle
       /\ \A g \in Guilds, u \in Chatters, roleIds \in Menus :
             \A selected \in SUBSET roleIds :
                SelectMenu(g, u, roleIds, selected, FALSE)
                   => (tasks' = tasks /\ memberRoles' = memberRoles)
      ]_vars

\* A selection whose remove went through and whose add failed, at its failure
\* reply, the member left without the roles removed.
C18_Witness ==
    \E s \in Slots :
        /\ tasks[s].kind = "select" /\ tasks[s].pc = "failreply" /\ tasks[s].alone
        /\ tasks[s].selected = {"rA"}
        /\ memberRoles[tasks[s].u] \cap tasks[s].roleIds = {}

\* C19: two selections of one member on one menu, all candidates manageable,
\* in flight together and met by no third, both past remove and add: the
\* member's roles among the candidates are the selection of one of the two.
C19_NoMixture ==
    \A s \in Slots, q \in Slots :
        ( /\ s # q
          /\ tasks[s].kind = "select" /\ tasks[q].kind = "select"
          /\ tasks[s].u = tasks[q].u /\ tasks[s].roleIds = tasks[q].roleIds
          /\ tasks[s].roleIds \subseteq editable
          /\ tasks[s].peers = 1 /\ tasks[q].peers = 1
          /\ tasks[s].pc = "reply" /\ tasks[q].pc = "reply" )
        => memberRoles[tasks[s].u] \cap tasks[s].roleIds \in {tasks[s].selected, tasks[q].selected}

====
